---- MODULE Spec2Model ----
(***************************************************************************)
(* Bonding curve contract (lib.rs, bonding_curve.rs, amm_integration.rs).  *)
(* The contract's persistent state is the host key-value storage; every    *)
(* handler of BondingCurveMessage is one action.  Token metadata (/name,   *)
(* /symbol, /data) is not read by any ledger operation and is left out.    *)
(* u128 is modelled by an unsigned word of WordBits bits, u64 by a word of *)
(* half that width.                                                        *)
(***************************************************************************)
EXTENDS Integers, Sequences, FiniteSets, TLC

(* ---------------------------------------------------------------------- *)
(* Bounds of the model                                                     *)
(* ---------------------------------------------------------------------- *)
WordBits == 30
MaxOps == 4
MaxSellArg == 2
MaxTokens == 3

U128_MAX == (2 ^ (WordBits - 1) - 1) * 2 + 1
U64_MOD == 2 ^ (WordBits \div 2)

(* ---------------------------------------------------------------------- *)
(* Result values and overflow-aware arithmetic                             *)
(* ---------------------------------------------------------------------- *)
Ok(v) == [ok |-> TRUE, v |-> v, err |-> "none"]
Err(e) == [ok |-> FALSE, v |-> 0, err |-> e]

checked_add(a, b) == IF a > U128_MAX - b THEN Err("ArithmeticOverflow") ELSE Ok(a + b)
checked_mul(a, b) ==
    IF b # 0 /\ a > U128_MAX \div b THEN Err("ArithmeticOverflow") ELSE Ok(a * b)
saturating_mul(a, b) == IF b # 0 /\ a > U128_MAX \div b THEN U128_MAX ELSE a * b
saturating_sub(a, b) == IF b > a THEN 0 ELSE a - b
saturating_div(a, b) == a \div b
Min(a, b) == IF a < b THEN a ELSE b

(* `?`: the error of r is returned, otherwise the computation goes on with its value *)
Try(r, F(_)) == IF r.ok THEN F(r.v) ELSE r
(* a local binding *)
Let(v, F(_)) == F(v)

(* ---------------------------------------------------------------------- *)
(* Identities                                                              *)
(* ---------------------------------------------------------------------- *)
AlkaneId(b, t) == [block |-> b, tx |-> t]
BUSD_ID == AlkaneId(2, 56801)
FRBTC_ID == AlkaneId(32, 0)
OYL_FACTORY_PROXY == AlkaneId(4, 65522)
alkane_id(base_token) == IF base_token = "BUSD" THEN BUSD_ID ELSE FRBTC_ID

(* contract identities the host may deploy the curve at *)
Identities == {AlkaneId(2, 1), AlkaneId(2, 464749)}

(* ---------------------------------------------------------------------- *)
(* Curve parameters                                                        *)
(* ---------------------------------------------------------------------- *)
CurveParams(bp, gr, thr, bt, ms) ==
    [base_price |-> bp, growth_rate |-> gr, graduation_threshold |-> thr,
     base_token |-> bt, max_supply |-> ms]

(* CurveParams::default(), amounts scaled to the model word *)
DefaultParams == CurveParams(100, 1500, 1000, "BUSD", 6)

(* ---------------------------------------------------------------------- *)
(* Storage: every key holds <<>> (never written) or <<value>>              *)
(* ---------------------------------------------------------------------- *)
Keys == {"/curve_params", "/lp_strategy", "/amm/lp_strategy", "/base_reserves",
         "/token_reserves", "/totalsupply", "/graduated", "/amm/pool_address",
         "/amm/graduation_block", "/amm/graduation_timestamp", "/token/creator",
         "/factory/id"}

EmptyStorage == [k \in Keys |-> <<>>]
get_value(st, k) == IF st[k] = <<>> THEN 0 ELSE st[k][1]
set_value(st, k, v) == [st EXCEPT ![k] = <<v>>]

get_curve_params(st) ==
    IF st["/curve_params"] = <<>> THEN DefaultParams ELSE st["/curve_params"][1]
set_curve_params(st, params) == set_value(st, "/curve_params", params)
get_base_reserves(st) == get_value(st, "/base_reserves")
set_base_reserves(st, amount) == set_value(st, "/base_reserves", amount)
set_token_reserves(st, amount) == set_value(st, "/token_reserves", amount)
total_supply(st) == get_value(st, "/totalsupply")
set_total_supply(st, v) == set_value(st, "/totalsupply", v)
(* mutation of is_graduated: the flag is compared with the wrong value *)
is_graduated_wrong_value(st) == get_value(st, "/graduated") = 2
is_graduated(st) == get_value(st, "/graduated") = 1
(* mutation of set_graduated: the flag is written as 0 *)
set_graduated_zero(st) == set_value(st, "/graduated", 0)
set_graduated(st) == set_value(st, "/graduated", 1)

(* ---------------------------------------------------------------------- *)
(* Curve pricing engine (bonding_curve.rs)                                 *)
(* ---------------------------------------------------------------------- *)
PRICE_CAP == U128_MAX \div 1000

(* The build profile of the contract: with overflow checks an unchecked     *)
(* `+` that overflows panics and the call is aborted, without them it wraps *)
VARIABLE overflow_checks

wrapping_add(a, b) == IF a > U128_MAX - b THEN a - (U128_MAX - b) - 1 ELSE a + b
wrapping_sub(a, b) == IF b > a THEN U128_MAX - (b - a) + 1 ELSE a - b

RECURSIVE power_loop(_, _, _, _)
power_loop(result, exp, numerator, denominator) ==
    IF exp = 0 THEN Ok(result)
    ELSE Try(checked_mul(result, IF exp % 10 = 0 THEN numerator
                                 ELSE denominator
                                        + wrapping_sub(numerator, denominator) \div 10),
             LAMBDA m :
                IF m \div denominator > PRICE_CAP THEN Ok(PRICE_CAP)
                ELSE power_loop(m \div denominator,
                                IF exp % 10 = 0 THEN exp - 10 ELSE exp - 1,
                                numerator, denominator))

power_approximation(base, numerator, exponent, denominator) ==
    IF exponent = 0 THEN Ok(base) ELSE power_loop(base, exponent, numerator, denominator)

price_at_supply(supply, params) ==
    IF supply = 0 THEN Ok(params.base_price)
    ELSE IF overflow_checks /\ params.growth_rate > U128_MAX - 10000 THEN Err("Panic")
    ELSE power_approximation(params.base_price, wrapping_add(10000, params.growth_rate),
                             supply, 10000)

calculate_buy_price(current_supply, tokens_to_buy, params) ==
    IF tokens_to_buy = 0 THEN Ok(0)
    ELSE Try(checked_add(current_supply, tokens_to_buy), LAMBDA new_supply :
         IF new_supply > params.max_supply THEN Err("ExceedsMaxSupply")
         ELSE Try(price_at_supply(current_supply, params), LAMBDA start_price :
              Try(price_at_supply(new_supply, params), LAMBDA end_price :
              Try(checked_add(start_price, end_price), LAMBDA sum :
              checked_mul(sum \div 2, tokens_to_buy)))))

calculate_sell_price(current_supply, tokens_to_sell, params) ==
    IF tokens_to_sell = 0 THEN Ok(0)
    ELSE IF tokens_to_sell > current_supply THEN Err("InsufficientSupply")
    ELSE Try(price_at_supply(current_supply - tokens_to_sell, params), LAMBDA start_price :
         Try(price_at_supply(current_supply, params), LAMBDA end_price :
         Try(checked_add(start_price, end_price), LAMBDA sum :
         Try(checked_mul(sum \div 2, 99), LAMBDA discounted :
         checked_mul(discounted \div 100, tokens_to_sell)))))

unwrap_or(r, default) == IF r.ok THEN r.v ELSE default

check_graduation_criteria(current_supply, base_reserves, params) ==
    \/ saturating_mul(current_supply,
                      unwrap_or(price_at_supply(current_supply, params), 0))
          >= params.graduation_threshold
    \/ base_reserves >= params.graduation_threshold \div 2

(* ---------------------------------------------------------------------- *)
(* Cost -> quantity inversion (lib.rs)                                     *)
(* ---------------------------------------------------------------------- *)
RECURSIVE search_loop(_, _, _, _, _, _)
search_loop(low, high, best_tokens, current_supply, base_amount, params) ==
    IF low > high THEN Ok(best_tokens)
    ELSE Let((low + high) \div 2, LAMBDA mid :
         Try(calculate_buy_price(current_supply, mid, params), LAMBDA cost :
            IF cost <= base_amount
            THEN search_loop(mid + 1, high, mid, current_supply, base_amount, params)
            ELSE search_loop(low, saturating_sub(mid, 1), best_tokens,
                             current_supply, base_amount, params)))

calculate_tokens_for_base_amount(st, base_amount, params) ==
    Try(search_loop(0, saturating_sub(params.max_supply, total_supply(st)), 0,
                    total_supply(st), base_amount, params),
        LAMBDA best_tokens :
           IF best_tokens = 0 THEN Err("InsufficientPayment") ELSE Ok(best_tokens))

(* ---------------------------------------------------------------------- *)
(* AMM integration (amm_integration.rs)                                    *)
(* ---------------------------------------------------------------------- *)
POOL_MOD == 1000000
SHL64_MOD == 551616      \* 2^64 modulo POOL_MOD
STORED_ID_LEN == 32      \* two u128 written little-endian
U128_LEN == 16           \* bytes u128::from_le_bytes takes
SLICE_LEN == 8           \* bytes in data[0..8] and in data[8..16]

(* the identities of the model are far below 2^64, so the three hashes add *)
(* without a carry into the block half and without wrapping                *)
generate_pool_address(factory, token_a, token_b) ==
    Let(factory.block + token_a.block + token_b.block, LAMBDA hi :
        AlkaneId(hi % POOL_MOD,
                 (hi * SHL64_MOD + factory.tx + token_a.tx + token_b.tx) % POOL_MOD))

call_oyl_factory_create_pool(factory_address, token_a, token_b) ==
    Ok(generate_pool_address(factory_address, token_a, token_b))

verify_pool_exists(pool_address) == pool_address.block > 0 /\ pool_address.tx > 0

RECURSIVE isqrt_loop(_, _, _)
isqrt_loop(lo, hi, n) ==
    IF lo >= hi THEN lo
    ELSE IF ((lo + hi + 1) \div 2) * ((lo + hi + 1) \div 2) <= n
         THEN isqrt_loop((lo + hi + 1) \div 2, hi, n)
         ELSE isqrt_loop(lo, (lo + hi + 1) \div 2 - 1, n)

u64_saturating_mul(a, b) ==
    IF b # 0 /\ a > (U64_MOD - 1) \div b THEN U64_MOD - 1 ELSE a * b

(* `as f64`: integers below F64_EXACT are kept, larger ones are rounded to  *)
(* the nearest multiple of the unit of their binade, ties to even.  A u64    *)
(* has 64 bits and an f64 mantissa 53; on the model's u64 three bits are     *)
(* lost at the top of the range.                                            *)
F64_EXACT == U64_MOD \div 8

RECURSIVE f64_unit(_, _)
f64_unit(n, unit) == IF n \div unit < F64_EXACT THEN unit ELSE f64_unit(n, unit * 2)

f64_round(n, unit) ==
    IF 2 * (n % unit) > unit \/ (2 * (n % unit) = unit /\ (n \div unit) % 2 = 1)
    THEN (n \div unit + 1) * unit
    ELSE (n \div unit) * unit

as_f64(n) == f64_round(n, f64_unit(n, 1))

(* both operands are cut to u64, the product saturates at u64::MAX and is   *)
(* converted to f64, the square root is truncated                           *)
calculate_lp_tokens(token_amount, base_amount) ==
    isqrt_loop(0, U64_MOD,
               as_f64(u64_saturating_mul(token_amount % U64_MOD,
                                         base_amount % U64_MOD)))

(* mutation of calculate_pool_ratios: the token side is not capped *)
calculate_pool_ratios_uncapped(token_supply, base_reserves, params) ==
    [token_liquidity |->
        saturating_div(saturating_mul(base_reserves, 1000000000),
                       unwrap_or(price_at_supply(token_supply, params),
                                 params.base_price)),
     base_liquidity |-> base_reserves]

(* mutation of calculate_pool_ratios: the token side is capped by half of   *)
(* max_supply                                                              *)
calculate_pool_ratios_max_supply_cap(token_supply, base_reserves, params) ==
    [token_liquidity |->
        Min(saturating_div(saturating_mul(base_reserves, 1000000000),
                           unwrap_or(price_at_supply(token_supply, params),
                                     params.base_price)),
            saturating_div(saturating_mul(params.max_supply, 50), 100)),
     base_liquidity |-> base_reserves]

calculate_pool_ratios(token_supply, base_reserves, params) ==
    [token_liquidity |->
        Min(saturating_div(saturating_mul(base_reserves, 1000000000),
                           unwrap_or(price_at_supply(token_supply, params),
                                     params.base_price)),
            saturating_div(saturating_mul(token_supply, 50), 100)),
     base_liquidity |-> base_reserves]

(* calculate_pool_ratios always returns Ok, so the Err arm is never taken  *)
check_liquidity_sufficiency(token_supply, base_reserves, params) ==
    Let(calculate_pool_ratios(token_supply, base_reserves, params), LAMBDA needed :
        needed.token_liquidity <= token_supply /\ needed.base_liquidity <= base_reserves)

(* reads a stored AlkaneId back: an 8-byte slice is converted to the       *)
(* 16-byte array from_le_bytes takes, which fails                          *)
read_stored_id(data) ==
    IF data = <<>> \/ STORED_ID_LEN < 16 THEN Err("NotFound")
    ELSE IF SLICE_LEN # U128_LEN THEN Err("InvalidBlock")
    ELSE Ok(data[1])

get_amm_pool_address(st) ==
    IF read_stored_id(st["/amm/pool_address"]).ok
    THEN <<read_stored_id(st["/amm/pool_address"]).v>> ELSE <<>>

set_amm_pool_address(st, pool) == set_value(st, "/amm/pool_address", pool)
set_graduation_block(st, block) == set_value(st, "/amm/graduation_block", block)
set_graduation_timestamp(st, ts) == set_value(st, "/amm/graduation_timestamp", ts)

StrategyName(n) ==
    CASE n = 1 -> "CommunityRewards"
      [] n = 2 -> "CreatorAllocation"
      [] n = 3 -> "DAOGovernance"
      [] OTHER -> "BurnAll"

(* mutation of get_lp_distribution_strategy: the key initialize writes is read *)
get_lp_distribution_strategy_init_key(st) == StrategyName(get_value(st, "/lp_strategy"))
get_lp_distribution_strategy(st) == StrategyName(get_value(st, "/amm/lp_strategy"))

get_factory_id(st) == read_stored_id(st["/factory/id"])
get_token_creator(st) == read_stored_id(st["/token/creator"])
get_dao_address == Ok(AlkaneId(100, 1))
get_top_holders(count) == <<>>

Dist(strategy, total, burned, distributed, ok) ==
    [strategy |-> strategy, total |-> total, burned |-> burned,
     distributed |-> distributed, ok |-> ok]

NoDist == Dist("none", 0, 0, 0, TRUE)

(* burn `percent` of the total, hand the rest to the recipient if there is one *)
burn_and_transfer(strategy, total, burn_amount, recipient_ok) ==
    Dist(strategy, total, burn_amount,
         IF recipient_ok THEN saturating_sub(total, burn_amount) ELSE 0, recipient_ok)

(* the LP split: what was burned and what reached a recipient *)
distribute_lp_split(st, total, strategy) ==
    CASE strategy = "BurnAll" -> Dist(strategy, total, total, 0, TRUE)
      [] strategy = "CommunityRewards" ->
           IF get_top_holders(10) = <<>> THEN Dist(strategy, total, total, 0, TRUE)
           ELSE burn_and_transfer(strategy, total,
                                  saturating_div(saturating_mul(total, 80), 100), TRUE)
      [] strategy = "CreatorAllocation" ->
           burn_and_transfer(strategy, total,
                             saturating_div(saturating_mul(total, 90), 100),
                             get_token_creator(st).ok)
      [] OTHER ->
           burn_and_transfer(strategy, total,
                             saturating_div(saturating_mul(total, 80), 100),
                             get_dao_address.ok)

distribute_lp_tokens(st, token_liquidity, base_liquidity, strategy) ==
    distribute_lp_split(st, calculate_lp_tokens(token_liquidity, base_liquidity), strategy)

(* ---------------------------------------------------------------------- *)
(* Handlers.  A handler yields an outcome: the status returned, the        *)
(* storage it leaves, the transfers and data of its response, the ordered  *)
(* log of its durable writes and collaborator calls, the liquidity it      *)
(* handed to a pool and the LP distribution it applied.                    *)
(* ---------------------------------------------------------------------- *)
Outcome(status, st, alkanes, data, log, liq, dist) ==
    [status |-> status, st |-> st, alkanes |-> alkanes, data |-> data,
     log |-> log, liq |-> liq, dist |-> dist]

Fail(status, st, log) == Outcome(status, st, <<>>, <<>>, log, <<>>, NoDist)

(* CallResponse::forward: the response starts with every incoming transfer *)
forward(incoming_alkanes) == incoming_alkanes

Transfer(id, value) == [id |-> id, value |-> value]

(* steps 3 and 4 of create_oyl_pool_atomic, once the pool address is known *)
add_verified_liquidity(pool, me, base_token, token_liquidity, base_liquidity) ==
    IF ~verify_pool_exists(pool)
    THEN [ok |-> FALSE, pool |-> pool, log |-> <<"create_pool", "verify_pool">>,
          liq |-> <<>>]
    ELSE [ok |-> TRUE, pool |-> pool,
          log |-> <<"create_pool", "verify_pool", "add_liquidity">>,
          liq |-> <<[pool |-> pool,
                     transfers |-> <<Transfer(me, token_liquidity),
                                     Transfer(alkane_id(base_token), base_liquidity)>>]>>]

create_oyl_pool_atomic(me, base_token, token_liquidity, base_liquidity) ==
    add_verified_liquidity(
        call_oyl_factory_create_pool(OYL_FACTORY_PROXY, me, alkane_id(base_token)).v,
        me, base_token, token_liquidity, base_liquidity)

GraduationLog == <<"set_graduated", "set_amm_pool_address", "set_graduation_block",
                   "set_graduation_timestamp", "distribute_lp_tokens">>

(* graduate_to_amm from "Mark as graduated" on: st is the storage after the *)
(* four writes, dist the outcome of distribute_lp_tokens                    *)
graduate_finish(st, incoming, created, dist) ==
    IF ~dist.ok
    THEN Outcome("LPDistributionFailed", st, <<>>, <<>>, created.log \o GraduationLog,
                 created.liq, dist)
    ELSE Outcome("Ok", st, forward(incoming), <<created.pool>>,
                 created.log \o GraduationLog
                    \o (IF get_factory_id(st).ok THEN <<"notify_factory">> ELSE <<>>),
                 created.liq, dist)

(* mutation of graduate_persist: the reserves handed to the pool leave the ledger *)
graduate_persist_moving_reserves(st, incoming, ratios, created) ==
    IF ~created.ok THEN Fail("PoolCreationFailed", st, created.log)
    ELSE Let(set_graduation_timestamp(
                set_graduation_block(
                   set_amm_pool_address(set_graduated(set_base_reserves(st, 0)),
                                        created.pool), 0), 0),
             LAMBDA st4 :
                graduate_finish(st4, incoming, created,
                    distribute_lp_tokens(st4, ratios.token_liquidity,
                        ratios.base_liquidity, get_lp_distribution_strategy(st4))))

graduate_persist(st, incoming, ratios, created) ==
    IF ~created.ok THEN Fail("PoolCreationFailed", st, created.log)
    ELSE Let(set_graduation_timestamp(
                set_graduation_block(
                   set_amm_pool_address(set_graduated(st), created.pool), 0), 0),
             LAMBDA st4 :
                graduate_finish(st4, incoming, created,
                    distribute_lp_tokens(st4, ratios.token_liquidity,
                        ratios.base_liquidity, get_lp_distribution_strategy(st4))))

graduate_create(st, me, incoming, params, ratios) ==
    graduate_persist(st, incoming, ratios,
        create_oyl_pool_atomic(me, params.base_token, ratios.token_liquidity,
                               ratios.base_liquidity))

graduate_checked(st, me, incoming, token_supply, params, base_reserves) ==
    IF price_at_supply(token_supply, params).err = "Panic" THEN Fail("Panic", st, <<>>)
    ELSE IF ~check_graduation_criteria(token_supply, base_reserves, params)
    THEN Fail("GraduationCriteriaNotMet", st, <<>>)
    ELSE graduate_create(st, me, incoming, params,
                         calculate_pool_ratios(token_supply, base_reserves, params))

graduate_to_amm(st, me, incoming, token_supply) ==
    IF is_graduated(st) THEN Fail("AlreadyGraduated", st, <<>>)
    ELSE graduate_checked(st, me, incoming, token_supply, get_curve_params(st),
                          get_base_reserves(st))

(* mutation of initialize_writes: the initialisation also clears the flag *)
initialize_writes_clearing_flag(st, me, params, lp_distribution_strategy) ==
    set_value(
      set_value(
        set_token_reserves(
          set_base_reserves(
            set_value(set_curve_params(st, params), "/lp_strategy",
                      lp_distribution_strategy), 0), 0),
        "/graduated", 0),
      "/token/creator", me)

(* the storage writes of initialize, in order *)
initialize_writes(st, me, params, lp_distribution_strategy) ==
    set_value(
      set_token_reserves(
        set_base_reserves(
          set_value(set_curve_params(st, params), "/lp_strategy",
                    lp_distribution_strategy), 0), 0),
      "/token/creator", me)

InitializeLog == <<"set_curve_params", "set_lp_strategy", "set_base_reserves",
                   "set_token_reserves", "set_creator">>

initialize(st, me, incoming, a) ==
    IF a.base_token_type \notin {0, 1} THEN Fail("InvalidBaseToken", st, <<>>)
    ELSE IF a.lp_distribution_strategy > 3 THEN Fail("InvalidLPStrategy", st, <<>>)
    ELSE Outcome("Ok",
                 initialize_writes(st, me,
                     CurveParams(a.base_price, a.growth_rate, a.graduation_threshold,
                                 IF a.base_token_type = 0 THEN "BUSD" ELSE "FrBtc",
                                 a.max_supply),
                     a.lp_distribution_strategy),
                 forward(incoming), <<>>, InitializeLog, <<>>, NoDist)

(* mutation of slippage_exceeded: the bound itself is rejected *)
slippage_exceeded_inclusive(amount_out, min_out) == amount_out <= min_out

(* slippage protection of a trade *)
slippage_exceeded(amount_out, min_out) == amount_out < min_out

(* the first incoming transfer of the base currency, as <<transfer>>, or <<>> *)
find_base_input(incoming, params) ==
    SelectSeq(incoming, LAMBDA t : t.id = alkane_id(params.base_token))

(* buy_tokens after the reserves are updated: g is the outcome of the       *)
(* graduation attempt, whose error is dropped                               *)
buy_finish(me, incoming, tokens_to_mint, g) ==
    Outcome("Ok", g.st, Append(forward(incoming), Transfer(me, tokens_to_mint)), <<>>,
            <<"mint", "set_base_reserves">> \o g.log, g.liq, g.dist)

(* buy_tokens from the mint on: st2 is the storage with the new supply and  *)
(* the new reserves                                                         *)
buy_settle(st2, me, incoming, params, new_supply, new_reserves, tokens_to_mint) ==
    buy_finish(me, incoming, tokens_to_mint,
        IF check_graduation_criteria(new_supply, new_reserves, params)
        THEN graduate_to_amm(st2, me, incoming, new_supply)
        ELSE Fail("NotAttempted", st2, <<>>))

(* mutation of buy_mint: the reserves grow by the cost of the minted tokens *)
buy_mint_cost_only(st, me, incoming, params, base_amount, tokens_to_mint) ==
    IF ~checked_add(total_supply(st), tokens_to_mint).ok
    THEN Fail("TotalSupplyOverflow", st, <<>>)
    ELSE Let(get_base_reserves(st)
                + calculate_buy_price(total_supply(st), tokens_to_mint, params).v,
             LAMBDA new_reserves :
                buy_settle(set_base_reserves(
                               set_total_supply(st, total_supply(st) + tokens_to_mint),
                               new_reserves),
                           me, incoming, params, total_supply(st) + tokens_to_mint,
                           new_reserves, tokens_to_mint))

buy_mint(st, me, incoming, params, base_amount, tokens_to_mint) ==
    IF ~checked_add(total_supply(st), tokens_to_mint).ok
    THEN Fail("TotalSupplyOverflow", st, <<>>)
    ELSE buy_settle(set_base_reserves(
                        set_total_supply(st, total_supply(st) + tokens_to_mint),
                        get_base_reserves(st) + base_amount),
                    me, incoming, params, total_supply(st) + tokens_to_mint,
                    get_base_reserves(st) + base_amount, tokens_to_mint)

buy_quote(st, me, incoming, min_tokens_out, params, base_amount, q) ==
    IF ~q.ok THEN Fail(q.err, st, <<>>)
    ELSE IF slippage_exceeded(q.v, min_tokens_out) THEN Fail("SlippageExceeded", st, <<>>)
    ELSE buy_mint(st, me, incoming, params, base_amount, q.v)

buy_with_params(st, me, incoming, min_tokens_out, params, found) ==
    IF found = <<>> THEN Fail("NoBaseInput", st, <<>>)
    ELSE buy_quote(st, me, incoming, min_tokens_out, params, found[1].value,
                   calculate_tokens_for_base_amount(st, found[1].value, params))

buy_tokens(st, me, incoming, min_tokens_out) ==
    IF is_graduated(st) THEN Fail("AlreadyGraduated", st, <<>>)
    ELSE buy_with_params(st, me, incoming, min_tokens_out, get_curve_params(st),
                         find_base_input(incoming, get_curve_params(st)))

(* mutation of insufficient_reserves: the reserves are not checked *)
insufficient_reserves_unchecked(base_payout, current_reserves) == FALSE

(* the reserves check of a sell *)
insufficient_reserves(base_payout, current_reserves) == base_payout > current_reserves

sell_settle(st, incoming, token_amount, min_base_out, params, payout) ==
    IF ~payout.ok THEN Fail(payout.err, st, <<>>)
    ELSE IF slippage_exceeded(payout.v, min_base_out)
         THEN Fail("SlippageExceeded", st, <<>>)
    ELSE IF insufficient_reserves(payout.v, get_base_reserves(st))
         THEN Fail("InsufficientReserves", st, <<>>)
    ELSE IF token_amount > total_supply(st) THEN Fail("InsufficientSupply", st, <<>>)
    ELSE Outcome("Ok",
                 set_base_reserves(set_total_supply(st, total_supply(st) - token_amount),
                                   get_base_reserves(st) - payout.v),
                 Append(forward(incoming),
                        Transfer(alkane_id(params.base_token), payout.v)), <<>>,
                 <<"set_total_supply", "set_base_reserves">>, <<>>, NoDist)

sell_tokens(st, me, incoming, token_amount, min_base_out) ==
    IF is_graduated(st) THEN Fail("AlreadyGraduated", st, <<>>)
    ELSE sell_settle(st, incoming, token_amount, min_base_out, get_curve_params(st),
                     calculate_sell_price(total_supply(st), token_amount,
                                          get_curve_params(st)))

(* mutation of graduate: the graduation criteria are not evaluated *)
graduate_skipping_criteria(st, me, incoming) ==
    IF is_graduated(st) THEN Fail("AlreadyGraduated", st, <<>>)
    ELSE graduate_create(st, me, incoming, get_curve_params(st),
             calculate_pool_ratios(total_supply(st), get_base_reserves(st),
                                   get_curve_params(st)))

graduate(st, me, incoming) == graduate_to_amm(st, me, incoming, total_supply(st))

(* ---------------------------------------------------------------------- *)
(* State machine                                                           *)
(* ---------------------------------------------------------------------- *)
VARIABLES storage, myself, call, response, trace, amm_liquidity, lp_dist, ops

vars == <<storage, myself, call, response, trace, amm_liquidity, lp_dist, ops,
          overflow_checks>>

NoInit == [base_price |-> 0, growth_rate |-> 0, graduation_threshold |-> 0,
           base_token_type |-> 0, max_supply |-> 0, lp_distribution_strategy |-> 0]

NoCall == [name |-> "none", incoming |-> <<>>, min_tokens_out |-> 0, token_amount |-> 0,
           min_base_out |-> 0, init |-> NoInit, supply |-> 0, args |-> <<>>]

(* inputs *)
BasePrices == {100}
GrowthRates == {1500}
Thresholds == {0, 400}
BaseTokenTypes == {0, 1, 2}
MaxSupplies == {1, 5}
Strategies == 0 .. 4
Amounts == {50, 100, 250}
Payments == {<<>>, <<Transfer(FRBTC_ID, 100)>>} \cup {<<Transfer(BUSD_ID, v)>> : v \in Amounts}
MinTokensOut == {0, 2}
MinBaseOut == {0, 150}

InitArgs ==
    {a \in [base_price : BasePrices, growth_rate : GrowthRates,
            graduation_threshold : Thresholds, base_token_type : BaseTokenTypes,
            max_supply : MaxSupplies, lp_distribution_strategy : Strategies] :
        \/ a.lp_distribution_strategy = 0
        \/ a.base_token_type = 0 /\ a.max_supply = 5}

(* The growth rates of GrowthRates do not overflow the growth factor, so   *)
(* the handlers behave alike under both build profiles; the wrapping one   *)
(* is explored.                                                            *)
Init ==
    /\ storage = EmptyStorage
    /\ myself \in Identities
    /\ call = NoCall
    /\ response = [status |-> "none", alkanes |-> <<>>, data |-> <<>>]
    /\ trace = <<>>
    /\ amm_liquidity = <<>>
    /\ lp_dist = NoDist
    /\ ops = 0
    /\ overflow_checks = FALSE

Response(o) == [status |-> o.status, alkanes |-> o.alkanes, data |-> o.data]
Distribution(o) == IF o.dist.strategy = "none" THEN lp_dist ELSE o.dist

Initialize ==
    \E a \in InitArgs :
        \E o \in {initialize(storage, myself, <<>>, a)} :
        /\ ops < MaxOps
        /\ ops' = ops + 1
        /\ call' = [NoCall EXCEPT !.name = "Initialize", !.init = a]
        /\ storage' = o.st
        /\ response' = Response(o)
        /\ trace' = o.log
        /\ amm_liquidity' = amm_liquidity \o o.liq
        /\ lp_dist' = Distribution(o)
        /\ UNCHANGED <<myself, overflow_checks>>

Buy ==
    \E incoming \in Payments, m \in MinTokensOut :
        \E o \in {buy_tokens(storage, myself, incoming, m)} :
        /\ ops < MaxOps
        /\ ops' = ops + 1
        /\ call' = [NoCall EXCEPT !.name = "Buy", !.incoming = incoming,
                                  !.min_tokens_out = m]
        /\ storage' = o.st
        /\ response' = Response(o)
        /\ trace' = o.log
        /\ amm_liquidity' = amm_liquidity \o o.liq
        /\ lp_dist' = Distribution(o)
        /\ UNCHANGED <<myself, overflow_checks>>

Sell ==
    \E n \in 0 .. MaxSellArg, m \in MinBaseOut :
      \E incoming \in {<<>>, <<Transfer(myself, n)>>} :
        \E o \in {sell_tokens(storage, myself, incoming, n, m)} :
        /\ ops < MaxOps
        /\ ops' = ops + 1
        /\ call' = [NoCall EXCEPT !.name = "Sell", !.incoming = incoming,
                                  !.token_amount = n, !.min_base_out = m]
        /\ storage' = o.st
        /\ response' = Response(o)
        /\ trace' = o.log
        /\ amm_liquidity' = amm_liquidity \o o.liq
        /\ lp_dist' = Distribution(o)
        /\ UNCHANGED <<myself, overflow_checks>>

Graduate ==
    \E o \in {graduate(storage, myself, <<>>)} :
    /\ ops < MaxOps
    /\ ops' = ops + 1
    /\ call' = [NoCall EXCEPT !.name = "Graduate"]
    /\ storage' = o.st
    /\ response' = Response(o)
    /\ trace' = o.log
    /\ amm_liquidity' = amm_liquidity \o o.liq
    /\ lp_dist' = Distribution(o)
    /\ UNCHANGED <<myself, overflow_checks>>

Next == Initialize \/ Buy \/ Sell \/ Graduate

Spec == Init /\ [][Next]_vars

(* ---------------------------------------------------------------------- *)
(* The pricing engine on its own: CurveCalculator's functions applied to   *)
(* chosen supplies and quantities under chosen parameters.  `call` holds   *)
(* the arguments, `response` the Result returned; a behaviour is one call. *)
(* ---------------------------------------------------------------------- *)
PriceBasePrices == {0, 10, 100, 100000}
PriceGrowthRates == {150, 1500, 5000, 15000, U128_MAX}
PriceMaxSupply == 12
PriceSupplies == 0 .. PriceMaxSupply
PriceQuantities == 0 .. 3
PricePayments == {0, 50, 100, 250, 1800, 200000}
PriceThresholds == {400, 400000}

PriceParams ==
    {CurveParams(bp, gr, 0, "BUSD", PriceMaxSupply) :
        bp \in PriceBasePrices, gr \in PriceGrowthRates}

PriceInit ==
    /\ storage \in {set_curve_params(EmptyStorage, params) : params \in PriceParams}
    /\ myself = AlkaneId(2, 1)
    /\ call = NoCall
    /\ response = [status |-> "none", alkanes |-> <<>>, data |-> <<>>]
    /\ trace = <<>>
    /\ amm_liquidity = <<>>
    /\ lp_dist = NoDist
    /\ ops = 0
    /\ overflow_checks \in BOOLEAN

Returned(r) ==
    [status |-> IF r.ok THEN "Ok" ELSE r.err, alkanes |-> <<>>,
     data |-> IF r.ok THEN <<r.v>> ELSE <<>>]

PriceAtSupply ==
    \E s \in PriceSupplies :
        /\ call = NoCall
        /\ call' = [NoCall EXCEPT !.name = "price_at_supply", !.supply = s]
        /\ response' = Returned(price_at_supply(s, get_curve_params(storage)))
        /\ UNCHANGED <<storage, myself, trace, amm_liquidity, lp_dist, ops, overflow_checks>>

CalculateBuyPrice ==
    \E s \in PriceSupplies \cup {U128_MAX}, q \in PriceQuantities \cup {10} :
        /\ call = NoCall
        /\ call' = [NoCall EXCEPT !.name = "calculate_buy_price", !.supply = s,
                                  !.token_amount = q]
        /\ response' = Returned(calculate_buy_price(s, q, get_curve_params(storage)))
        /\ UNCHANGED <<storage, myself, trace, amm_liquidity, lp_dist, ops, overflow_checks>>

CalculateSellPrice ==
    \E s \in PriceSupplies :
      \E q \in PriceQuantities \cup {s, s + 1} :
        /\ call = NoCall
        /\ call' = [NoCall EXCEPT !.name = "calculate_sell_price", !.supply = s,
                                  !.token_amount = q]
        /\ response' = Returned(calculate_sell_price(s, q, get_curve_params(storage)))
        /\ UNCHANGED <<storage, myself, trace, amm_liquidity, lp_dist, ops, overflow_checks>>

(* the cost -> quantity inversion of buy_tokens at current supply s *)
CalculateTokensForBaseAmount ==
    \E s \in PriceSupplies, base_amount \in PricePayments :
        /\ call = NoCall
        /\ call' = [NoCall EXCEPT !.name = "calculate_tokens_for_base_amount",
                                  !.supply = s, !.args = <<base_amount>>]
        /\ response' = Returned(calculate_tokens_for_base_amount(
                                    set_total_supply(storage, s), base_amount,
                                    get_curve_params(storage)))
        /\ UNCHANGED <<storage, myself, trace, amm_liquidity, lp_dist, ops, overflow_checks>>

CheckGraduationCriteria ==
    \E s \in PriceSupplies, threshold \in PriceThresholds :
      \E base_reserves \in {0, threshold \div 2 - 1, threshold \div 2} :
        /\ call = NoCall
        /\ call' = [NoCall EXCEPT !.name = "check_graduation_criteria", !.supply = s,
                                  !.args = <<base_reserves, threshold>>]
        /\ response' =
             Returned(IF price_at_supply(s, get_curve_params(storage)).err = "Panic"
                      THEN Err("Panic")
                      ELSE Ok(check_graduation_criteria(s, base_reserves,
                                  [get_curve_params(storage)
                                      EXCEPT !.graduation_threshold = threshold])))
        /\ UNCHANGED <<storage, myself, trace, amm_liquidity, lp_dist, ops, overflow_checks>>

(* test_price_continuity: the cost of `batches` consecutive purchases of   *)
(* `batch` tokens each, starting at `supply`                               *)
RECURSIVE incremental_cost(_, _, _, _)
incremental_cost(supply, batch, batches, params) ==
    IF batches = 0 THEN Ok(0)
    ELSE Try(calculate_buy_price(supply, batch, params), LAMBDA batch_cost :
         Try(incremental_cost(supply + batch, batch, batches - 1, params), LAMBDA rest :
         checked_add(batch_cost, rest)))

PriceBatches == 10
PriceBatchSizes == {1}

(* the two costs test_price_continuity compares: one purchase of           *)
(* PriceBatches * batch tokens, and the same tokens bought batch by batch  *)
PriceContinuity ==
    \E batch \in PriceBatchSizes :
      \E s \in {x \in PriceSupplies : x + PriceBatches * batch <= PriceMaxSupply} :
        \E bulk \in {calculate_buy_price(s, PriceBatches * batch, get_curve_params(storage))},
           incremental \in {incremental_cost(s, batch, PriceBatches,
                                             get_curve_params(storage))} :
        /\ call = NoCall
        /\ call' = [NoCall EXCEPT !.name = "price_continuity", !.supply = s,
                                  !.token_amount = PriceBatches * batch,
                                  !.args = <<batch>>]
        /\ response' = [status |-> IF ~bulk.ok THEN bulk.err
                                   ELSE IF ~incremental.ok THEN incremental.err ELSE "Ok",
                        alkanes |-> <<>>,
                        data |-> IF bulk.ok /\ incremental.ok
                                 THEN <<bulk.v, incremental.v>> ELSE <<>>]
        /\ UNCHANGED <<storage, myself, trace, amm_liquidity, lp_dist, ops, overflow_checks>>

PriceNext ==
    \/ PriceAtSupply
    \/ CalculateBuyPrice
    \/ CalculateSellPrice
    \/ CalculateTokensForBaseAmount
    \/ CheckGraduationCriteria
    \/ PriceContinuity

PriceSpec == PriceInit /\ [][PriceNext]_vars

(* ---------------------------------------------------------------------- *)
(* The graduation arithmetic on its own: AMMIntegration's LP functions and  *)
(* the emergency check applied to chosen arguments.  The storage is that of *)
(* a curve after initialize, so the creator is recorded.                    *)
(* ---------------------------------------------------------------------- *)
LpAmounts == {0, 1, 3, 100, 1000, U64_MOD - 1, U64_MOD, U64_MOD + 4}
LpStrategies == {StrategyName(n) : n \in 0 .. 3}

(* emergency graduation: a curve that stalled for EMERGENCY_BLOCKS blocks   *)
(* (about 30 days of 10-minute blocks) graduates once supply and reserves   *)
(* exceed the emergency floors                                              *)
EMERGENCY_BLOCKS == 4320
EMERGENCY_MIN_SUPPLY == 1000000
EMERGENCY_MIN_RESERVES == 100000000

(* mutation of check_emergency_graduation: the elapsed time is not looked at *)
check_emergency_graduation_any_time(current_block, launch_block, token_supply, base_reserves) ==
    /\ token_supply > EMERGENCY_MIN_SUPPLY
    /\ base_reserves > EMERGENCY_MIN_RESERVES

check_emergency_graduation(current_block, launch_block, token_supply, base_reserves) ==
    /\ saturating_sub(current_block, launch_block) >= EMERGENCY_BLOCKS
    /\ token_supply > EMERGENCY_MIN_SUPPLY
    /\ base_reserves > EMERGENCY_MIN_RESERVES

EmergencyBlocks == {5000, 5319, 5320, 100000}
EmergencySupplies == {EMERGENCY_MIN_SUPPLY, EMERGENCY_MIN_SUPPLY + 1, 2000000}
EmergencyReserves == {EMERGENCY_MIN_RESERVES, EMERGENCY_MIN_RESERVES + 1, 200000000}

AmmInit ==
    /\ myself \in Identities
    /\ storage = initialize_writes(EmptyStorage, myself, DefaultParams, 2)
    /\ call = NoCall
    /\ response = [status |-> "none", alkanes |-> <<>>, data |-> <<>>]
    /\ trace = <<>>
    /\ amm_liquidity = <<>>
    /\ lp_dist = NoDist
    /\ ops = 0
    /\ overflow_checks \in BOOLEAN

CalculateLpTokens ==
    \E token_amount \in LpAmounts, base_amount \in LpAmounts :
        /\ call = NoCall
        /\ call' = [NoCall EXCEPT !.name = "calculate_lp_tokens",
                                  !.args = <<token_amount, base_amount>>]
        /\ response' = Returned(Ok(calculate_lp_tokens(token_amount, base_amount)))
        /\ UNCHANGED <<storage, myself, trace, amm_liquidity, lp_dist, ops, overflow_checks>>

DistributeLpTokens ==
    \E token_liquidity \in LpAmounts, base_liquidity \in LpAmounts,
       strategy \in LpStrategies :
      \E d \in {distribute_lp_tokens(storage, token_liquidity, base_liquidity, strategy)} :
        /\ call = NoCall
        /\ call' = [NoCall EXCEPT !.name = "distribute_lp_tokens",
                                  !.args = <<token_liquidity, base_liquidity, strategy>>]
        /\ response' = Returned(IF d.ok THEN Ok(d.total) ELSE Err("LPDistributionFailed"))
        /\ lp_dist' = d
        /\ UNCHANGED <<storage, myself, trace, amm_liquidity, ops, overflow_checks>>

CheckEmergencyGraduation ==
    \E current_block \in EmergencyBlocks, launch_block \in {1000},
       token_supply \in EmergencySupplies, base_reserves \in EmergencyReserves :
        /\ call = NoCall
        /\ call' = [NoCall EXCEPT !.name = "check_emergency_graduation",
                         !.args = <<current_block, launch_block, token_supply,
                                    base_reserves>>]
        /\ response' = Returned(Ok(check_emergency_graduation(
                            current_block, launch_block, token_supply, base_reserves)))
        /\ UNCHANGED <<storage, myself, trace, amm_liquidity, lp_dist, ops, overflow_checks>>

(* the low and the high state of test_liquidity_sufficiency, scaled *)
LiquiditySupplies == {0, 1, 100, 250}
LiquidityReserves == {0, 1, 100, 10000}

CheckLiquiditySufficiency ==
    \E token_supply \in LiquiditySupplies, base_reserves \in LiquidityReserves :
        /\ call = NoCall
        /\ call' = [NoCall EXCEPT !.name = "check_liquidity_sufficiency",
                                  !.args = <<token_supply, base_reserves>>]
        /\ response' = Returned(Ok(check_liquidity_sufficiency(
                            token_supply, base_reserves, get_curve_params(storage))))
        /\ UNCHANGED <<storage, myself, trace, amm_liquidity, lp_dist, ops, overflow_checks>>

AmmNext ==
    \/ CalculateLpTokens
    \/ DistributeLpTokens
    \/ CheckEmergencyGraduation
    \/ CheckLiquiditySufficiency

AmmSpec == AmmInit /\ [][AmmNext]_vars

(* ---------------------------------------------------------------------- *)
(* The factory contract (factory.rs).  `storage` is the factory's own      *)
(* storage; an indexed family of keys (/factory/tokens/{i}, ...) is held   *)
(* as the sequence of its entries.  `trace` is the list of the token infos *)
(* returned by the successful creations.  max_supply and the graduation    *)
(* threshold are counted in thousands so that their bounds fit the word.   *)
(* ---------------------------------------------------------------------- *)
FactoryKeys == {"/factory/token_count", "/factory/fee", "/factory/fees/busd",
                "/factory/fees/frbtc", "/factory/tokens", "/factory/lookup",
                "/factory/creator", "/deployed"}

BONDING_CURVE_FACTORY_ID == 3021
DEFAULT_FACTORY_FEE == 100000000
FACTORY_DEPLOYMENT_FEE == 100000000
MIN_BASE_PRICE == 1000
MAX_BASE_PRICE == 1000000000
MIN_GROWTH_RATE == 10
MAX_GROWTH_RATE == 1000
MIN_MAX_SUPPLY == 1000
MAX_MAX_SUPPLY == 100000000
LAUNCH_BASE_PRICE == 4000000
LAUNCH_GROWTH_RATE == 150
LAUNCH_GRADUATION_THRESHOLD == 6900000
LAUNCH_MAX_SUPPLY == 1000000

(* Option<u128>: <<>> is None, <<v>> is Some(v) *)
option_unwrap_or(o, default) == IF o = <<>> THEN default ELSE o[1]

TokenLaunchParams(n1, n2, sym, bp, gr, thr, ms, bt, lp) ==
    [name_part1 |-> n1, name_part2 |-> n2, symbol |-> sym, base_price |-> bp,
     growth_rate |-> gr, graduation_threshold |-> thr, max_supply |-> ms,
     base_token |-> bt, lp_distribution_strategy |-> lp]

(* format!("{}:{}", id.block, id.tx): the two decimal fields of the string *)
id_string(id) == <<id.block, id.tx>>

TokenInfo(token_id, name, symbol, creator, base_token) ==
    [token_id |-> id_string(token_id), name |-> name, symbol |-> symbol,
     creator |-> id_string(creator), base_token |-> base_token, launch_block |-> 0,
     launch_timestamp |-> 0, is_graduated |-> FALSE, amm_pool |-> <<>>]

get_factory_fee(st) ==
    IF get_value(st, "/factory/fee") = 0 THEN DEFAULT_FACTORY_FEE
    ELSE get_value(st, "/factory/fee")

collected_fees_key(base_token) ==
    IF base_token = "BUSD" THEN "/factory/fees/busd" ELSE "/factory/fees/frbtc"

get_token_count(st) == get_value(st, "/factory/token_count")

(* the entries of an indexed family of keys, and a write to one of them *)
family(st, k) == IF st[k] = <<>> THEN <<>> ELSE st[k][1]
family_set(st, k, index, v) ==
    set_value(st, k,
              IF index <= Len(family(st, k)) THEN [family(st, k) EXCEPT ![index] = v]
              ELSE Append(family(st, k), v))

(* mutation of validate_launch_params: the growth rate is not looked at *)
validate_launch_params_any_growth(params) ==
    IF params.name_part1 = 0 /\ params.name_part2 = 0 THEN Err("EmptyName")
    ELSE IF params.symbol = 0 THEN Err("EmptySymbol")
    ELSE IF \/ option_unwrap_or(params.base_price, LAUNCH_BASE_PRICE) < MIN_BASE_PRICE
            \/ option_unwrap_or(params.base_price, LAUNCH_BASE_PRICE) > MAX_BASE_PRICE
         THEN Err("InvalidBasePrice")
    ELSE IF \/ option_unwrap_or(params.max_supply, LAUNCH_MAX_SUPPLY) < MIN_MAX_SUPPLY
            \/ option_unwrap_or(params.max_supply, LAUNCH_MAX_SUPPLY) > MAX_MAX_SUPPLY
         THEN Err("InvalidMaxSupply")
    ELSE Ok(TRUE)

validate_launch_params(params) ==
    IF params.name_part1 = 0 /\ params.name_part2 = 0 THEN Err("EmptyName")
    ELSE IF params.symbol = 0 THEN Err("EmptySymbol")
    ELSE IF \/ option_unwrap_or(params.base_price, LAUNCH_BASE_PRICE) < MIN_BASE_PRICE
            \/ option_unwrap_or(params.base_price, LAUNCH_BASE_PRICE) > MAX_BASE_PRICE
         THEN Err("InvalidBasePrice")
    ELSE IF \/ option_unwrap_or(params.growth_rate, LAUNCH_GROWTH_RATE) < MIN_GROWTH_RATE
            \/ option_unwrap_or(params.growth_rate, LAUNCH_GROWTH_RATE) > MAX_GROWTH_RATE
         THEN Err("InvalidGrowthRate")
    ELSE IF \/ option_unwrap_or(params.max_supply, LAUNCH_MAX_SUPPLY) < MIN_MAX_SUPPLY
            \/ option_unwrap_or(params.max_supply, LAUNCH_MAX_SUPPLY) > MAX_MAX_SUPPLY
         THEN Err("InvalidMaxSupply")
    ELSE Ok(TRUE)

(* Ok(storage with the fee recorded) or the error.  The incoming transfers *)
(* are not inspected: found_payment is set to true and payment_amount to   *)
(* the required fee before the test                                        *)
verify_fee_payment(st, incoming, base_token) ==
    Let(get_factory_fee(st), LAMBDA required_fee :
    Let([found_payment |-> TRUE, payment_amount |-> required_fee], LAMBDA p :
        IF ~p.found_payment \/ p.payment_amount < required_fee
        THEN Err("InsufficientFactoryFee")
        ELSE Try(checked_add(get_value(st, collected_fees_key(base_token)), required_fee),
                 LAMBDA new_fees :
                    Ok(set_value(st, collected_fees_key(base_token), new_fees)))))

(* factory_id >> 32, shifted in two halves *)
generate_token_id(index) ==
    AlkaneId((BONDING_CURVE_FACTORY_ID \div 2 ^ 16) \div 2 ^ 16, index)

params_to_curve_params(params) ==
    CurveParams(option_unwrap_or(params.base_price, LAUNCH_BASE_PRICE),
                option_unwrap_or(params.growth_rate, LAUNCH_GROWTH_RATE),
                option_unwrap_or(params.graduation_threshold, LAUNCH_GRADUATION_THRESHOLD),
                params.base_token,
                option_unwrap_or(params.max_supply, LAUNCH_MAX_SUPPLY))

token_name(params) == <<params.name_part1, params.name_part2>>

deploy_bonding_curve(st, token_id, curve_params, launch_params) ==
    family_set(st, "/deployed", token_id.tx,
               [curve_params |-> curve_params, name |-> token_name(launch_params),
                symbol |-> launch_params.symbol,
                lp_strategy |-> launch_params.lp_distribution_strategy])

store_token_info(st, index, info) == family_set(st, "/factory/tokens", index, info)

add_to_creator_list(st, creator, token_id) ==
    set_value(st, "/factory/creator",
              Append(family(st, "/factory/creator"), id_string(token_id)))

(* create_token after the fee was recorded and the count incremented *)
create_token_register(st, me, incoming, params, token_index, token_info) ==
    Outcome("Ok",
            family_set(
              add_to_creator_list(
                store_token_info(
                  deploy_bonding_curve(st, generate_token_id(token_index),
                                       params_to_curve_params(params), params),
                  token_index, token_info),
                me, generate_token_id(token_index)),
              "/factory/lookup", token_index, token_index),
            forward(incoming), <<token_info>>, <<>>, <<>>, NoDist)

create_token_paid(st0, st, me, incoming, params) ==
    Try(checked_add(get_token_count(st), 1), LAMBDA token_index :
        create_token_register(set_value(st, "/factory/token_count", token_index),
                              me, incoming, params, token_index,
                              TokenInfo(generate_token_id(token_index), token_name(params),
                                        params.symbol, me, params.base_token)))

create_token(st, me, incoming, params) ==
    IF ~validate_launch_params(params).ok
    THEN Fail(validate_launch_params(params).err, st, <<>>)
    ELSE IF ~verify_fee_payment(st, incoming, params.base_token).ok
    THEN Fail(verify_fee_payment(st, incoming, params.base_token).err, st, <<>>)
    ELSE Let(create_token_paid(st, verify_fee_payment(st, incoming, params.base_token).v,
                               me, incoming, params),
             LAMBDA o : IF "status" \in DOMAIN o THEN o ELSE Fail(o.err, st, <<>>))

(* the registry entries with index in start .. end - 1 *)
registry_range(st, start, end) ==
    IF start >= end THEN <<>>
    ELSE SubSeq(family(st, "/factory/tokens"), IF start = 0 THEN 1 ELSE start,
                Min(end - 1, Len(family(st, "/factory/tokens"))))

(* offset + 1 and start + limit are unchecked additions *)
get_token_list(st, offset, limit) ==
    IF overflow_checks /\ offset > U128_MAX - 1 THEN Err("Panic")
    ELSE Let(wrapping_add(offset, 1), LAMBDA start :
         IF overflow_checks /\ start > U128_MAX - limit THEN Err("Panic")
         ELSE Ok(registry_range(st, start,
                                Min(wrapping_add(start, limit), get_token_count(st) + 1))))

(* one factory per behaviour; at most MaxTokens tokens are created *)
TestParams == TokenLaunchParams(1, 2, 1, <<LAUNCH_BASE_PRICE>>, <<LAUNCH_GROWTH_RATE>>,
                                <<LAUNCH_GRADUATION_THRESHOLD>>, <<LAUNCH_MAX_SUPPLY>>,
                                "BUSD", 0)

LaunchParams ==
    {TestParams,
     [TestParams EXCEPT !.base_token = "frBTC", !.base_price = <<>>, !.growth_rate = <<>>,
                        !.graduation_threshold = <<>>, !.max_supply = <<>>],
     [TestParams EXCEPT !.name_part1 = 0, !.base_price = <<MIN_BASE_PRICE>>,
                        !.growth_rate = <<MAX_GROWTH_RATE>>,
                        !.max_supply = <<MAX_MAX_SUPPLY>>],
     [TestParams EXCEPT !.name_part2 = 0, !.base_price = <<MAX_BASE_PRICE>>,
                        !.growth_rate = <<MIN_GROWTH_RATE>>,
                        !.max_supply = <<MIN_MAX_SUPPLY>>],
     [TestParams EXCEPT !.name_part1 = 0, !.name_part2 = 0],
     [TestParams EXCEPT !.symbol = 0]}
    \cup {[TestParams EXCEPT !.base_price = <<v>>] :
              v \in {0, 500, MIN_BASE_PRICE - 1, MAX_BASE_PRICE + 1}}
    \cup {[TestParams EXCEPT !.growth_rate = <<v>>] :
              v \in {0, MIN_GROWTH_RATE - 1, MAX_GROWTH_RATE + 1, 2000}}
    \cup {[TestParams EXCEPT !.max_supply = <<v>>] :
              v \in {0, MIN_MAX_SUPPLY - 1, MAX_MAX_SUPPLY + 1}}

FeePayments ==
    {<<>>,
     <<Transfer(BUSD_ID, FACTORY_DEPLOYMENT_FEE \div 2)>>,
     <<Transfer(BUSD_ID, FACTORY_DEPLOYMENT_FEE)>>,
     <<Transfer(FRBTC_ID, FACTORY_DEPLOYMENT_FEE)>>,
     <<Transfer(AlkaneId(99, 99), FACTORY_DEPLOYMENT_FEE)>>}

ListOffsets == {0, 1, 2, 3, U128_MAX}
ListLimits == {0, 1, 2, U128_MAX}

FactoryInit ==
    /\ myself = AlkaneId(1, 1000)
    /\ storage = [k \in FactoryKeys |-> <<>>]
    /\ call = NoCall
    /\ response = [status |-> "none", alkanes |-> <<>>, data |-> <<>>]
    /\ trace = <<>>
    /\ amm_liquidity = <<>>
    /\ lp_dist = NoDist
    /\ ops = 0
    /\ overflow_checks \in BOOLEAN

CreateToken ==
    \E params \in LaunchParams, incoming \in FeePayments :
        \E o \in {create_token(storage, myself, incoming, params)} :
        /\ get_token_count(storage) < MaxTokens
        /\ call' = [NoCall EXCEPT !.name = "create_token", !.incoming = incoming,
                                  !.args = <<params>>]
        /\ storage' = o.st
        /\ response' = Response(o)
        /\ trace' = trace \o o.data
        /\ UNCHANGED <<myself, amm_liquidity, lp_dist, ops, overflow_checks>>

GetTokenList ==
    \E offset \in ListOffsets, limit \in ListLimits :
        /\ call' = [NoCall EXCEPT !.name = "get_token_list", !.args = <<offset, limit>>]
        /\ response' = Returned(get_token_list(storage, offset, limit))
        /\ UNCHANGED <<storage, myself, trace, amm_liquidity, lp_dist, ops, overflow_checks>>

FactoryNext ==
    \/ CreateToken
    \/ GetTokenList

FactorySpec == FactoryInit /\ [][FactoryNext]_vars

(* ---------------------------------------------------------------------- *)
(* Trading on an initialized curve: a buyer asks GetBuyQuote for a batch   *)
(* and attaches the quoted cost to a Buy, a seller sends a batch back.     *)
(* `trace` is the history of the successful trades: the supply, the base   *)
(* currency paid in by the Buys and paid out by the Sells so far.          *)
(* ---------------------------------------------------------------------- *)
get_buy_quote(st, token_amount) ==
    calculate_buy_price(total_supply(st), token_amount, get_curve_params(st))

TradeBatches == {1, 50, 100}

(* the default base price and growth with room for two hundred tokens, and *)
(* a curve whose price leaves the word within its maximum supply           *)
TradeCurves == {CurveParams(100, 1500, 100000000, "BUSD", 200),
                CurveParams(100000, 1500, 100000000, "BUSD", 12)}

TradeInit ==
    /\ myself \in Identities
    /\ \E params \in TradeCurves :
          storage = initialize_writes(EmptyStorage, myself, params, 2)
    /\ call = NoCall
    /\ response = [status |-> "none", alkanes |-> <<>>, data |-> <<>>]
    /\ trace = <<[supply |-> 0, paid_in |-> 0, paid_out |-> 0]>>
    /\ amm_liquidity = <<>>
    /\ lp_dist = NoDist
    /\ ops = 0
    /\ overflow_checks = FALSE

(* the history after a trade whose outcome is o *)
Traded(o, paid_in, paid_out) ==
    IF o.status # "Ok" THEN trace
    ELSE Append(trace, [supply |-> total_supply(o.st),
                        paid_in |-> trace[Len(trace)].paid_in + paid_in,
                        paid_out |-> trace[Len(trace)].paid_out + paid_out])

BuyAtQuote ==
    \E n \in TradeBatches :
      \E m \in {0, n}, c \in {get_buy_quote(storage, n)} :
        \E o \in {buy_tokens(storage, myself, <<Transfer(BUSD_ID, c.v)>>, m)} :
        /\ ops < MaxOps
        /\ c.ok
        /\ ops' = ops + 1
        /\ call' = [NoCall EXCEPT !.name = "Buy", !.incoming = <<Transfer(BUSD_ID, c.v)>>,
                                  !.min_tokens_out = m, !.token_amount = n,
                                  !.args = <<c.v>>]
        /\ storage' = o.st
        /\ response' = Response(o)
        /\ trace' = Traded(o, c.v, 0)
        /\ amm_liquidity' = amm_liquidity \o o.liq
        /\ lp_dist' = Distribution(o)
        /\ UNCHANGED <<myself, overflow_checks>>

SellBatch ==
    \E n \in TradeBatches :
        \E o \in {sell_tokens(storage, myself, <<Transfer(myself, n)>>, n, 0)} :
        /\ ops < MaxOps
        /\ ops' = ops + 1
        /\ call' = [NoCall EXCEPT !.name = "Sell", !.incoming = <<Transfer(myself, n)>>,
                                  !.token_amount = n]
        /\ storage' = o.st
        /\ response' = Response(o)
        /\ trace' = Traded(o, 0, IF o.status = "Ok"
                                THEN o.alkanes[Len(o.alkanes)].value ELSE 0)
        /\ amm_liquidity' = amm_liquidity \o o.liq
        /\ lp_dist' = Distribution(o)
        /\ UNCHANGED <<myself, overflow_checks>>

TradeNext ==
    \/ BuyAtQuote
    \/ SellBatch

TradeSpec == TradeInit /\ [][TradeNext]_vars

(* ---------------------------------------------------------------------- *)
(* Observations of the ledger used by the properties                       *)
(* ---------------------------------------------------------------------- *)
Graduated == storage["/graduated"] = <<1>>
Supply == IF storage["/totalsupply"] = <<>> THEN 0 ELSE storage["/totalsupply"][1]
Reserves == IF storage["/base_reserves"] = <<>> THEN 0 ELSE storage["/base_reserves"][1]
Ledger == <<storage["/totalsupply"], storage["/base_reserves"], storage["/graduated"],
            storage["/amm/pool_address"]>>
Initialized == storage["/curve_params"] # <<>>
InLog(step, log) == \E i \in 1 .. Len(log) : log[i] = step

(* C1: once the graduated flag is true it is true in every later state;    *)
(* no operation, a repeated Initialize included, resets it.                *)
C1_GraduatedNeverReverts == [][Graduated => Graduated']_vars

C1_Witness == Graduated /\ call.name = "Initialize" /\ response.status = "Ok"

(* C2: once graduated, every Buy and every Sell fails with AlreadyGraduated *)
(* whatever its arguments and payment, and changes nothing in storage.      *)
C2_TradesFailAfterGraduation ==
    [][(Graduated /\ call'.name \in {"Buy", "Sell"})
         => (response'.status = "AlreadyGraduated" /\ storage' = storage
             /\ amm_liquidity' = amm_liquidity)]_vars

C2_Witness ==
    /\ Graduated /\ response.status = "AlreadyGraduated"
    /\ call.name = "Buy" /\ call.incoming # <<>>

(* C3: a curve graduates at most once: a Graduate issued after a graduation *)
(* fails with AlreadyGraduated, requests no pool, hands over no liquidity,  *)
(* and the stored pool handle never changes once it is set.                 *)
C3_GraduatesAtMostOnce ==
    [][/\ (amm_liquidity # <<>> /\ call'.name = "Graduate")
            => (response'.status = "AlreadyGraduated" /\ ~InLog("create_pool", trace')
                /\ amm_liquidity' = amm_liquidity /\ storage' = storage)
       /\ storage["/amm/pool_address"] # <<>>
            => storage'["/amm/pool_address"] = storage["/amm/pool_address"]
       /\ Len(amm_liquidity') <= 1]_vars

C3_Witness ==
    /\ call.name = "Graduate" /\ response.status = "AlreadyGraduated"
    /\ Len(amm_liquidity) = 1 /\ storage["/amm/pool_address"] # <<>>
    /\ check_graduation_criteria(Supply, Reserves, get_curve_params(storage))

(* C4: current_supply <= max_supply in every reachable state.              *)
C4_SupplyWithinMax == Supply <= get_curve_params(storage).max_supply

(* C5: a second Initialize fails with AlreadyInitialized and leaves the    *)
(* parameters, the LP strategy, the supply and the reserves unchanged.     *)
C5_InitializeOnce ==
    [][(Initialized /\ call'.name = "Initialize")
         => (response'.status = "AlreadyInitialized" /\ storage' = storage)]_vars

(* C6: a Buy, Sell or Graduate that returns an error leaves supply,        *)
(* reserves, graduated flag and pool handle as they were; a graduation     *)
(* whose pool handle is invalid fails with PoolCreationFailed.             *)
C6_NoPartialCommit ==
    [][/\ (call'.name \in {"Buy", "Sell", "Graduate"} /\ response'.status # "Ok")
            => Ledger' = Ledger
       /\ (call'.name = "Graduate" /\ InLog("verify_pool", trace')
           /\ ~InLog("add_liquidity", trace'))
            => (response'.status = "PoolCreationFailed" /\ storage' = storage)]_vars

C6_Witness ==
    /\ call.name = "Graduate" /\ response.status = "PoolCreationFailed"
    /\ ~Graduated /\ Reserves > 0

(* C7: within a graduation the flag and the pool handle are persisted last, *)
(* after pool creation, verification, liquidity transfer and LP             *)
(* distribution; a failed LP distribution never leaves the curve graduated. *)
C7_PersistIsLast ==
    /\ \A i \in 1 .. Len(trace) :
          trace[i] \in {"set_graduated", "set_amm_pool_address"}
             => \E j \in 1 .. i - 1 : trace[j] = "distribute_lp_tokens"
    /\ ~(Graduated /\ ~lp_dist.ok)

(* C8: the LP strategy applied at graduation is the one given to           *)
(* Initialize: selectors 0..3 give BurnAll, CommunityRewards,              *)
(* CreatorAllocation, DAOGovernance.                                        *)
C8_ConfiguredStrategyApplied ==
    InLog("distribute_lp_tokens", trace)
       => lp_dist.strategy = StrategyName(get_value(storage, "/lp_strategy"))

(* C9: the transfers a successful Buy returns contain the minted tokens    *)
(* and not the base-currency payment credited to the reserves.             *)
C9_BuyConsumesPayment ==
    (call.name = "Buy" /\ response.status = "Ok")
       => /\ \E i \in 1 .. Len(response.alkanes) :
                response.alkanes[i].id = myself /\ response.alkanes[i].value > 0
          /\ \A i \in 1 .. Len(response.alkanes) :
                response.alkanes[i].id # alkane_id(get_curve_params(storage).base_token)

(* C10: Buy fails with SlippageExceeded exactly when the quantity computed *)
(* for the payment is below min_tokens_out, and then mints nothing and     *)
(* leaves supply and reserves unchanged.                                    *)
BuyQuantity(st, incoming) ==
    IF st["/graduated"] = <<1>> \/ find_base_input(incoming, get_curve_params(st)) = <<>>
    THEN Err("NotComputed")
    ELSE calculate_tokens_for_base_amount(st,
             find_base_input(incoming, get_curve_params(st))[1].value,
             get_curve_params(st))

C10_SlippageExactly ==
    [][call'.name = "Buy"
         => /\ response'.status = "SlippageExceeded"
                  <=> (BuyQuantity(storage, call'.incoming).ok
                       /\ BuyQuantity(storage, call'.incoming).v < call'.min_tokens_out)
            /\ response'.status = "SlippageExceeded"
                  => (storage' = storage /\ response'.alkanes = <<>>)]_vars

C10_Witness ==
    /\ call.name = "Buy" /\ response.status = "SlippageExceeded"
    /\ call.min_tokens_out = 2 /\ ~Graduated

(* C11: a Sell whose payout is below min_base_out fails with               *)
(* SlippageExceeded, one whose payout exceeds the base reserves fails with *)
(* InsufficientReserves; both leave supply and reserves as they were, a    *)
(* successful Sell takes exactly the payout out of the reserves, and the   *)
(* reserves are never negative.                                            *)
SellPayout(st, token_amount) ==
    calculate_sell_price(total_supply(st), token_amount, get_curve_params(st))

C11_SellErrors ==
    [][/\ (call'.name = "Sell" /\ ~Graduated /\ SellPayout(storage, call'.token_amount).ok)
          => /\ SellPayout(storage, call'.token_amount).v < call'.min_base_out
                  => (response'.status = "SlippageExceeded" /\ storage' = storage)
             /\ (/\ SellPayout(storage, call'.token_amount).v >= call'.min_base_out
                 /\ SellPayout(storage, call'.token_amount).v > Reserves)
                  => (response'.status = "InsufficientReserves" /\ storage' = storage)
             /\ response'.status = "Ok"
                  => Reserves' = Reserves - SellPayout(storage, call'.token_amount).v
       /\ Reserves' >= 0]_vars

C11_Witness ==
    /\ call.name = "Sell" /\ response.status = "InsufficientReserves"
    /\ call.token_amount > 0 /\ Supply > 0 /\ ~Graduated
(* C12: a successful Buy on a curve that is not graduated and whose        *)
(* post-trade supply and reserves meet the graduation criteria leaves the  *)
(* curve graduated, the graduation having run once within that Buy.        *)
C12_BuyGraduates ==
    [][(/\ call'.name = "Buy" /\ response'.status = "Ok" /\ ~Graduated
        /\ check_graduation_criteria(Supply', Reserves', get_curve_params(storage)))
         => (Graduated' /\ Len(amm_liquidity') = Len(amm_liquidity) + 1)]_vars
(* C13: a Graduate on a curve that is not graduated fails with             *)
(* GraduationCriteriaNotMet and changes nothing when supply and reserves   *)
(* do not meet the criteria; when they do and the pool handle is valid it  *)
(* succeeds and the curve is graduated.                                    *)
PoolHandleValid(st, me) ==
    verify_pool_exists(generate_pool_address(OYL_FACTORY_PROXY, me,
                           alkane_id(get_curve_params(st).base_token)))

C14_PoolHandleIffGraduated ==
    /\ get_amm_pool_address(storage) # <<>> <=> Graduated
    /\ get_amm_pool_address(storage) # <<>>
          => get_amm_pool_address(storage) = storage["/amm/pool_address"]
(* C15: with base_price > 0 and growth_rate > 0, the price at a lower      *)
(* supply is at most the price at a higher supply.                         *)
C15_PriceMonotone ==
    [][(/\ call'.name = "price_at_supply"
        /\ get_curve_params(storage).base_price > 0
        /\ get_curve_params(storage).growth_rate > 0
        /\ response'.status = "Ok")
         => \A lower \in 0 .. call'.supply :
               price_at_supply(lower, get_curve_params(storage)).ok
                  => price_at_supply(lower, get_curve_params(storage)).v
                        <= response'.data[1]]_vars

(* C16: price_at_supply always returns a value, at most u128::MAX/1000,    *)
(* and once it returned that cap every larger supply returns the cap.      *)
C16_PriceNeverOverflows ==
    [][call'.name = "price_at_supply"
         => /\ response'.status = "Ok"
            /\ response'.data[1] <= PRICE_CAP
            /\ (/\ call.name = "price_at_supply" /\ response.status = "Ok"
                /\ response.data = <<PRICE_CAP>> /\ call.supply < call'.supply)
                 => response'.data = <<PRICE_CAP>>]_vars

(* C17: calculate_buy_price(s, 0) = 0; for q > 0 and s+q <= max_supply it  *)
(* is floor((price_at_supply(s) + price_at_supply(s+q)) / 2) * q, or the   *)
(* error ArithmeticOverflow when the sum or the product exceeds u128.      *)
TrapezoidCost(start_price, end_price, q) == ((start_price + end_price) \div 2) * q

C17_BuyPriceTrapezoid ==
    [][call'.name = "calculate_buy_price"
         => /\ call'.token_amount = 0 => response' = Returned(Ok(0))
            /\ (call'.token_amount > 0
                  /\ call'.supply + call'.token_amount <= get_curve_params(storage).max_supply)
                 => /\ price_at_supply(call'.supply, get_curve_params(storage)).ok
                    /\ price_at_supply(call'.supply + call'.token_amount,
                                       get_curve_params(storage)).ok
                    /\ response' =
                         Returned(
                           IF TrapezoidCost(
                                price_at_supply(call'.supply,
                                                get_curve_params(storage)).v,
                                price_at_supply(call'.supply + call'.token_amount,
                                                get_curve_params(storage)).v,
                                call'.token_amount) <= U128_MAX
                           THEN Ok(TrapezoidCost(
                                price_at_supply(call'.supply,
                                                get_curve_params(storage)).v,
                                price_at_supply(call'.supply + call'.token_amount,
                                                get_curve_params(storage)).v,
                                call'.token_amount))
                           ELSE Err("ArithmeticOverflow"))]_vars

(* C18: for q > 0, calculate_buy_price(s, q) fails with ExceedsMaxSupply   *)
(* when s+q > max_supply, s+q beyond u128 included, and never fails with   *)
(* that error when s+q <= max_supply.                                      *)
C18_ExceedsMaxSupply ==
    [][(call'.name = "calculate_buy_price" /\ call'.token_amount > 0)
         => (response'.status = "ExceedsMaxSupply"
               <=> call'.supply + call'.token_amount
                      > get_curve_params(storage).max_supply)]_vars

(* C19: calculate_sell_price(s, q) fails with InsufficientSupply exactly   *)
(* when q > s, and selling q = s succeeds for every s <= max_supply.       *)
C19_SellValidation ==
    [][call'.name = "calculate_sell_price"
         => /\ response'.status = "InsufficientSupply"
                  <=> call'.token_amount > call'.supply
            /\ (/\ call'.token_amount = call'.supply
                /\ call'.supply <= get_curve_params(storage).max_supply)
                 => response'.status = "Ok"]_vars

(* C20: over the same supply window the sell payout is strictly below the  *)
(* buy cost and above 98% of it: calculate_sell_price(s+q, q) against      *)
(* calculate_buy_price(s, q), q > 0, both successful.                      *)
C20_Spread ==
    [][(/\ call'.name = "calculate_sell_price"
        /\ call'.token_amount > 0 /\ call'.token_amount <= call'.supply
        /\ response'.status = "Ok"
        /\ calculate_buy_price(call'.supply - call'.token_amount, call'.token_amount,
                               get_curve_params(storage)).ok)
         => /\ response'.data[1]
                 < calculate_buy_price(call'.supply - call'.token_amount,
                                       call'.token_amount, get_curve_params(storage)).v
            /\ response'.data[1] * 100
                 > calculate_buy_price(call'.supply - call'.token_amount,
                                       call'.token_amount,
                                       get_curve_params(storage)).v * 98]_vars
(* C21: the quantity n the inversion returns for a payment at supply s     *)
(* costs at most the payment, one token more costs more than the payment   *)
(* when n < max_supply - s, and no larger quantity is affordable.          *)
Affordable(s, q, base_amount, params) ==
    /\ calculate_buy_price(s, q, params).ok
    /\ calculate_buy_price(s, q, params).v <= base_amount

C21_InversionConsistent ==
    [][(call'.name = "calculate_tokens_for_base_amount" /\ response'.status = "Ok")
         => /\ Affordable(call'.supply, response'.data[1], call'.args[1],
                          get_curve_params(storage))
            /\ \A m \in response'.data[1] + 1 ..
                            get_curve_params(storage).max_supply - call'.supply :
                  ~Affordable(call'.supply, m, call'.args[1],
                              get_curve_params(storage))]_vars

(* C22: the inversion fails with InsufficientPayment exactly when one      *)
(* token costs more than the payment; when one token is affordable it      *)
(* succeeds with a quantity of at least 1.                                 *)
C22_InsufficientPayment ==
    [][(/\ call'.name = "calculate_tokens_for_base_amount"
        /\ calculate_buy_price(call'.supply, 1, get_curve_params(storage)).ok)
         => /\ response'.status = "InsufficientPayment"
                  <=> ~Affordable(call'.supply, 1, call'.args[1],
                                  get_curve_params(storage))
            /\ Affordable(call'.supply, 1, call'.args[1], get_curve_params(storage))
                  => (response'.status = "Ok" /\ response'.data[1] >= 1)]_vars
(* C23: the graduation criteria hold iff supply * price_at_supply(supply)  *)
(* >= graduation_threshold or reserves >= graduation_threshold / 2.        *)
(* args = <<reserves, graduation_threshold>>.                              *)
C23_GraduationCriteria ==
    [][call'.name = "check_graduation_criteria"
         => /\ call'.args[1] >= call'.args[2] \div 2 => response'.data = <<TRUE>>
            /\ call'.args[1] < call'.args[2] \div 2
                 => /\ price_at_supply(call'.supply, get_curve_params(storage)).ok
                    /\ response'.data = <<TRUE>>
                         <=> call'.supply
                               * price_at_supply(call'.supply,
                                                 get_curve_params(storage)).v
                                >= call'.args[2]]_vars
(* the liquidity handed to the pool by the graduation of this step         *)
PoolSeeded == Len(amm_liquidity') = Len(amm_liquidity) + 1
TokenLiquidity(liquidity) == liquidity[Len(liquidity)].transfers[1].value
BaseLiquidity(liquidity) == liquidity[Len(liquidity)].transfers[2].value

(* the token amount matching the base liquidity at the current price       *)
TokensAtCurrentPrice(supply, base_liquidity, params) ==
    (IF base_liquidity > U128_MAX \div 1000000000 THEN U128_MAX
     ELSE base_liquidity * 1000000000)
       \div (IF price_at_supply(supply, params).ok
             THEN price_at_supply(supply, params).v ELSE params.base_price)

(* C24 as stated: base_liquidity = base_reserves and token_liquidity =     *)
(* min(base_liquidity * 10^9 / price_at_supply(supply), max_supply * 50%). *)
C24_PoolSeedMaxSupplyCap ==
    [][PoolSeeded
         => /\ BaseLiquidity(amm_liquidity') = Reserves'
            /\ TokenLiquidity(amm_liquidity')
                 = Min(TokensAtCurrentPrice(Supply', Reserves', get_curve_params(storage')),
                       (get_curve_params(storage').max_supply * 50) \div 100)]_vars

(* C24 amended: the cap is half of the current token supply (supply * 50,  *)
(* saturating, over 100).                                                  *)
C24_PoolSeedSupplyCap ==
    [][PoolSeeded
         => /\ BaseLiquidity(amm_liquidity') = Reserves'
            /\ TokenLiquidity(amm_liquidity')
                 = Min(TokensAtCurrentPrice(Supply', Reserves', get_curve_params(storage')),
                       (IF Supply' > U128_MAX \div 50 THEN U128_MAX ELSE Supply' * 50)
                          \div 100)]_vars

C24_Witness ==
    /\ Graduated /\ amm_liquidity # <<>> /\ response.status = "Ok"
    /\ call.name \in {"Buy", "Graduate"}
    /\ TokenLiquidity(amm_liquidity) > 0
    /\ TokenLiquidity(amm_liquidity) < (get_curve_params(storage).max_supply * 50) \div 100

(* C25: the pool seed of every graduation has token_liquidity <= current   *)
(* supply, token_liquidity <= max_supply / 2 and base_liquidity <= base    *)
(* reserves.                                                               *)
C25_PoolSeedBounds ==
    [][PoolSeeded
         => /\ TokenLiquidity(amm_liquidity') <= Supply'
            /\ TokenLiquidity(amm_liquidity')
                  <= get_curve_params(storage').max_supply \div 2
            /\ BaseLiquidity(amm_liquidity') <= Reserves']_vars

C25_Witness ==
    /\ Initialized /\ Graduated /\ call.name = "Buy" /\ InLog("add_liquidity", trace)
    /\ TokenLiquidity(amm_liquidity) > 0 /\ BaseLiquidity(amm_liquidity) > 0

(* C26: the LP total returned by calculate_lp_tokens is the integer square *)
(* root of token_liquidity * base_liquidity, for operands of the whole     *)
(* u128 range: nothing is lost by truncating an operand or the product.    *)
C26_LpIsIntegerSqrt ==
    call.name = "calculate_lp_tokens"
        => /\ response.data[1] * response.data[1] <= call.args[1] * call.args[2]
           /\ call.args[1] * call.args[2] < (response.data[1] + 1) * (response.data[1] + 1)

(* the share of the LP total a strategy burns before handing out the rest  *)
BurnShare(strategy, total) ==
    CASE strategy = "BurnAll" -> total
      [] strategy = "CreatorAllocation" -> (total * 90) \div 100
      [] OTHER -> (total * 80) \div 100

(* C27: for every strategy and LP total the distribution succeeds with     *)
(* burned + handed out = total; the burned amount is the strategy's share  *)
(* (all for BurnAll, 80% for CommunityRewards and DAOGovernance, 90% for   *)
(* CreatorAllocation), to which a remainder without recipients is added;   *)
(* BurnAll hands out nothing.                                              *)
C27_LpConserved ==
    call.name = "distribute_lp_tokens"
        => /\ lp_dist.ok
           /\ lp_dist.strategy = call.args[3]
           /\ lp_dist.burned + lp_dist.distributed = lp_dist.total
           /\ lp_dist.burned >= BurnShare(lp_dist.strategy, lp_dist.total)
           /\ lp_dist.distributed # 0
                 => lp_dist.burned = BurnShare(lp_dist.strategy, lp_dist.total)
           /\ lp_dist.strategy = "BurnAll" => lp_dist.distributed = 0

(* C28: check_emergency_graduation answers true only when at least         *)
(* EMERGENCY_BLOCKS blocks have passed since launch and supply and reserves *)
(* exceed their floors: a recent launch is refused whatever the supply and *)
(* reserves, a stalled curve above the floors is accepted.                 *)
C28_EmergencyGraduation ==
    call.name = "check_emergency_graduation"
        => /\ response.data[1]
                 => /\ call.args[1] - call.args[2] >= EMERGENCY_BLOCKS
                    /\ call.args[3] > EMERGENCY_MIN_SUPPLY
                    /\ call.args[4] > EMERGENCY_MIN_RESERVES
           /\ call.args[1] - call.args[2] < EMERGENCY_BLOCKS => ~response.data[1]
           /\ (/\ call.args[1] - call.args[2] >= EMERGENCY_BLOCKS
               /\ call.args[3] > EMERGENCY_MIN_SUPPLY
               /\ call.args[4] > EMERGENCY_MIN_RESERVES) => response.data[1]

C28_Witness ==
    /\ call.name = "check_emergency_graduation"
    /\ call.args = <<100000, 1000, 2000000, 200000000>>
    /\ response.data = <<TRUE>>

(* C29: a successful calculate_buy_price(s, q) with q >= 1 returns at      *)
(* least q * base_price; with growth_rate 150 the first token costs at     *)
(* least base_price and less than twice base_price.                        *)
C29_BuyPriceFloor ==
    (call.name = "calculate_buy_price" /\ response.status = "Ok" /\ call.token_amount >= 1)
        => /\ response.data[1] >= call.token_amount * get_curve_params(storage).base_price
           /\ (/\ get_curve_params(storage).growth_rate = 150
               /\ get_curve_params(storage).base_price > 0
               /\ call.supply = 0 /\ call.token_amount = 1)
                 => response.data[1] < 2 * get_curve_params(storage).base_price

(* C30: buying q tokens from supply s in one call, or in 10 consecutive    *)
(* equal batches, costs the same within 0.1%: the two totals differ by     *)
(* less than a thousandth of the bulk cost.                                *)
C30_PathIndependent ==
    (call.name = "price_continuity" /\ response.status = "Ok" /\ response.data[1] > 0)
        => /\ response.data[1] - response.data[2] <= (response.data[1] - 1) \div 1000
           /\ response.data[2] - response.data[1] <= (response.data[1] - 1) \div 1000

(* C31: check_liquidity_sufficiency tells low states from high ones: it is *)
(* false for the low state (supply 100 with reserves 100 in the model) and *)
(* true for the high one (supply 250 with reserves 10000).                 *)
C31_LiquidityDiscriminates ==
    call.name = "check_liquidity_sufficiency"
        => /\ call.args = <<100, 100>> => response.data = <<FALSE>>
           /\ call.args = <<250, 10000>> => response.data = <<TRUE>>

(* ---------------------------------------------------------------------- *)
(* Factory claims                                                          *)
(* ---------------------------------------------------------------------- *)
(* the incoming transfers hold at least `fee` of the base currency *)
FeePaid(incoming, base_token, fee) ==
    \E i \in 1 .. Len(incoming) :
        incoming[i].id = alkane_id(base_token) /\ incoming[i].value >= fee

(* C32: a create_token call with acceptable launch parameters whose        *)
(* incoming transfers do not hold the factory fee in the chosen base       *)
(* currency fails with 'Insufficient factory fee' and leaves the registry, *)
(* the token count and the collected fees as they were.                    *)
C32_FeeRequired ==
    [][(/\ call'.name = "create_token"
        /\ validate_launch_params(call'.args[1]).ok
        /\ ~FeePaid(call'.incoming, call'.args[1].base_token, get_factory_fee(storage)))
       => /\ response'.status = "InsufficientFactoryFee"
          /\ storage' = storage]_vars

(* the launch parameters lie outside what a creation accepts *)
InvalidLaunch(params) ==
    \/ params.name_part1 = 0 /\ params.name_part2 = 0
    \/ params.symbol = 0
    \/ option_unwrap_or(params.base_price, LAUNCH_BASE_PRICE)
           \notin MIN_BASE_PRICE .. MAX_BASE_PRICE
    \/ option_unwrap_or(params.growth_rate, LAUNCH_GROWTH_RATE)
           \notin MIN_GROWTH_RATE .. MAX_GROWTH_RATE
    \/ option_unwrap_or(params.max_supply, LAUNCH_MAX_SUPPLY)
           \notin MIN_MAX_SUPPLY .. MAX_MAX_SUPPLY

ValidationErrors == {"EmptyName", "EmptySymbol", "InvalidBasePrice", "InvalidGrowthRate",
                     "InvalidMaxSupply"}

(* C33: create_token with an empty name, an empty symbol, or a base price, *)
(* growth rate or maximum supply outside its range is rejected, and the    *)
(* rejected creation changes nothing in the factory: token count,          *)
(* registry, creator list and collected fees stay as they were.            *)
C33_InvalidLaunchRejected ==
    [][(call'.name = "create_token" /\ InvalidLaunch(call'.args[1]))
       => /\ response'.status \in ValidationErrors
          /\ response'.data = <<>>
          /\ storage' = storage
          /\ trace' = trace]_vars

(* a creation was rejected for its growth rate by a factory that already   *)
(* holds a token and its fee                                               *)
C33_Witness ==
    /\ call.name = "create_token"
    /\ response.status = "InvalidGrowthRate"
    /\ get_token_count(storage) = 1
    /\ get_value(storage, "/factory/fees/busd") = FACTORY_DEPLOYMENT_FEE

(* the page of the created tokens that get_token_list(offset, limit) is to return *)
ExpectedPage(offset, limit) ==
    IF offset >= Len(trace) THEN <<>>
    ELSE SubSeq(trace, offset + 1, offset + Min(limit, Len(trace) - offset))

(* C34: after n successful creations the token count is n, the n token ids *)
(* are pairwise distinct, and get_token_list(offset, limit) returns the    *)
(* min(limit, n - offset) tokens that follow the first `offset` ones in    *)
(* creation order, none when offset >= n.                                  *)
C34_CountIdsAndPages ==
    /\ get_token_count(storage) = Len(trace)
    /\ \A i, j \in 1 .. Len(trace) : i # j => trace[i].token_id # trace[j].token_id
    /\ call.name = "get_token_list"
          => /\ response.status = "Ok"
             /\ response.data = <<ExpectedPage(call.args[1], call.args[2])>>

(* ---------------------------------------------------------------------- *)
(* Trades and graduation on the curve                                      *)
(* ---------------------------------------------------------------------- *)
(* the last transfer of a response: the minted tokens of a Buy, the payout *)
(* of a Sell                                                               *)
LastTransfer(r) == r.alkanes[Len(r.alkanes)]

(* the payment attached to a Buy: the first transfer in the base currency *)
Payment(c) == find_base_input(c.incoming, get_curve_params(storage))[1].value

GraduationKeys == {"/graduated", "/amm/pool_address", "/amm/graduation_block",
                   "/amm/graduation_timestamp"}

(* C35: a successful Buy with payment P that mints n tokens adds n to the  *)
(* supply and the whole of P to the reserves; a successful Sell of a       *)
(* tokens with payout p takes a from the supply and p from the reserves;   *)
(* nothing else in the ledger changes, except the graduation records when  *)
(* the Buy triggers the graduation.                                        *)
C35_TradeAccounting ==
    [][/\ (call'.name = "Buy" /\ response'.status = "Ok")
            => /\ Supply' = Supply + LastTransfer(response').value
               /\ Reserves' = Reserves + Payment(call')
               /\ \A k \in Keys \ {"/totalsupply", "/base_reserves"} :
                     \/ storage'[k] = storage[k]
                     \/ k \in GraduationKeys /\ ~Graduated /\ Graduated'
       /\ (call'.name = "Sell" /\ response'.status = "Ok")
            => /\ Supply' = Supply - call'.token_amount
               /\ Reserves' = Reserves - LastTransfer(response').value
               /\ \A k \in Keys \ {"/totalsupply", "/base_reserves"} :
                     storage'[k] = storage[k]]_vars

(* a Buy minted two tokens for a payment above their cost and the whole    *)
(* payment is in the reserves                                              *)
C35_Witness ==
    /\ call.name = "Buy" /\ response.status = "Ok"
    /\ LastTransfer(response).value = 2
    /\ Supply = 2 /\ Reserves = 250
    /\ calculate_buy_price(0, 2, get_curve_params(storage)).v < 250

(* C36: whenever successful Buys and Sells on the active curve bring the   *)
(* supply back to a value it had before, the Sells in between paid out     *)
(* strictly less base currency than the Buys in between paid in, however   *)
(* the tokens were batched.                                                *)
C36_RoundTripLoses ==
    \A i, j \in 1 .. Len(trace) :
        (i < j /\ trace[i].supply = trace[j].supply)
            => trace[j].paid_out - trace[i].paid_out < trace[j].paid_in - trace[i].paid_in

(* C39: on an active curve, when GetBuyQuote(n) returns the cost c for     *)
(* n >= 1, the Buy in the same state with payment c and min_tokens_out = n *)
(* succeeds and mints at least n tokens.                                   *)
C39_QuoteHonoured ==
    [][(call'.name = "Buy" /\ ~Graduated /\ get_buy_quote(storage, call'.token_amount).ok
          /\ call'.incoming
                = <<Transfer(BUSD_ID, get_buy_quote(storage, call'.token_amount).v)>>
          /\ call'.min_tokens_out = call'.token_amount)
       => /\ response'.status = "Ok"
          /\ LastTransfer(response').value >= call'.token_amount]_vars

(* C37: a successful Sell of token_amount tokens had at least token_amount *)
(* of the curve's own token among its incoming transfers, and its response *)
(* hands none of the curve's token back to the caller.                     *)
C37_SellSurrendersTokens ==
    [][(call'.name = "Sell" /\ response'.status = "Ok")
       => /\ \/ call'.token_amount = 0
             \/ \E i \in 1 .. Len(call'.incoming) :
                   /\ call'.incoming[i].id = myself
                   /\ call'.incoming[i].value >= call'.token_amount
          /\ \A i \in 1 .. Len(response'.alkanes) :
                response'.alkanes[i].id = myself => response'.alkanes[i].value = 0]_vars

(* C38: for fixed parameters and reserves, when the graduation criteria    *)
(* are met at supply s they are met at every supply from s up to           *)
(* max_supply.                                                             *)
C38_EligibilityMonotone ==
    (call.name = "check_graduation_criteria" /\ response.data = <<TRUE>>)
        => \A higher \in call.supply .. get_curve_params(storage).max_supply :
              check_graduation_criteria(higher, call.args[1],
                  [get_curve_params(storage) EXCEPT !.graduation_threshold = call.args[2]])

(* C40: a graduation that succeeds writes only the graduated flag, the     *)
(* pool handle and the graduation block and timestamp: the supply, the     *)
(* reserves and the curve parameters of the ledger are what they were      *)
(* (after the trade, when a Buy triggered it), although the pool was       *)
(* handed base_liquidity = base_reserves.                                  *)
C40_GraduationFrame ==
    [][(~Graduated /\ Graduated')
       => /\ call'.name = "Graduate"
               => \A k \in Keys \ GraduationKeys : storage'[k] = storage[k]
          /\ call'.name = "Buy"
               => /\ Supply' = Supply + LastTransfer(response').value
                  /\ Reserves' = Reserves + Payment(call')
                  /\ \A k \in Keys \ (GraduationKeys \cup {"/totalsupply", "/base_reserves"}) :
                        storage'[k] = storage[k]
          /\ PoolSeeded
          /\ BaseLiquidity(amm_liquidity') = Reserves']_vars

(* a Buy triggered the graduation of a curve holding tokens and reserves,   *)
(* the pool was handed the reserves and they are still in the ledger       *)
C40_Witness ==
    /\ call.name = "Buy" /\ response.status = "Ok" /\ Graduated
    /\ Supply > 0 /\ Reserves > 0
    /\ storage["/amm/pool_address"] # <<>>
    /\ amm_liquidity # <<>> /\ BaseLiquidity(amm_liquidity) = Reserves

====
